---- MODULE Spec2Model ----
(***************************************************************************)
(* read_evtx_files (src/read_evtx_files.py): one pass over the "*.evtx"    *)
(* children of a directory, printing for each its name, its size and the   *)
(* verdict of a 4-byte signature check.                                    *)
(*                                                                         *)
(* The state is the filesystem the scan looks at (the target path, the     *)
(* directory's children in enumeration order, each child's kind and        *)
(* bytes), the function's locals (evtx_files, the loop position, the open  *)
(* file object, header), the lines printed so far and the exception, if    *)
(* any, that left the function.                                            *)
(***************************************************************************)
EXTENDS Integers, Sequences, FiniteSets

VARIABLES
    target,      \* what `directory` names: "missing", "file" or "dir"
    dirents,     \* the directory's children, in the order the filesystem lists them
    fs,          \* child name -> [kind, data, st_size]
    pc,          \* the statement read_evtx_files is at
    evtx_files,  \* line 23: the matched children, as listed
    idx,         \* position of the for loop of line 32 in evtx_files
    handles,     \* the names whose file object f is open (line 41)
    header,      \* line 42
    out,         \* the lines printed so far
    opens,       \* the names open() was called on, in call order
    exc          \* the exception that left read_evtx_files, or "none"

vars == <<target, dirents, fs, pc, evtx_files, idx, handles, header, out, opens, exc>>

-----------------------------------------------------------------------------
(* Bounds of the model *)

\* the most children the directory holds
MaxEntries == 3

\* the most bytes a file of the signature specification holds after its first four
MaxTail == 5

-----------------------------------------------------------------------------
(* Program constants *)

\* line 42: f.read(8)
HeaderLen == 8

\* line 43: header[:4]
SigLen == 4

\* line 43: b'ElfF'
Magic == <<69, 108, 102, 70>>

\* line 23: the extension of the glob pattern "*.evtx"
Ext == <<".", "e", "v", "t", "x">>

\* line 23: "*.evtx"
Pattern == <<"*">> \o Ext

-----------------------------------------------------------------------------
(* Pure helpers *)

Min(a, b) == IF a < b THEN a ELSE b

Drop(s, n) == SubSeq(s, n, Len(s))

\* fnmatch of a name against a pattern whose only wildcard is "*" (case-sensitive:
\* characters are compared as they are)
RECURSIVE GlobMatch(_, _)
GlobMatch(pat, name) ==
    IF pat = <<>> THEN name = <<>>
    ELSE IF Head(pat) = "*"
         THEN \E k \in 0..Len(name) : GlobMatch(Tail(pat), Drop(name, k + 1))
         ELSE /\ name # <<>>
              /\ Head(name) = Head(pat)
              /\ GlobMatch(Tail(pat), Tail(name))

MatchesMut(name) == TRUE

\* line 23: whether dir_path.glob("*.evtx") yields the child
Matches(name) == GlobMatch(Pattern, name)

ExistsMut(t) == TRUE

\* line 18: dir_path.exists()
Exists(t) == t # "missing"

\* pathlib's glob lists a path only when it is a directory
IsDir(t) == t = "dir"

\* line 23: list(dir_path.glob("*.evtx")): nothing unless the path is a directory
GlobList(t, ents) == IF IsDir(t) THEN SelectSeq(ents, Matches) ELSE <<>>

\* line 42: f.read(n), the first n bytes or all of them when there are fewer
ReadBytes(data, n) == SubSeq(data, 1, Min(n, Len(data)))

\* header[:n]
Slice(h, n) == SubSeq(h, 1, Min(n, Len(h)))

SignatureOkMut(h) == h = Magic

\* line 43: header[:4] == b'ElfF'
SignatureOk(h) == Slice(h, SigLen) = Magic

StSizeMut(f) == Len(ReadBytes(f.data, HeaderLen))

\* line 34: evtx_file.stat().st_size
StSize(f) == f.st_size

\* line 34: stat() follows symbolic links and raises when nothing is there
StatFails(f) == f.kind \in {"dangling", "gone"}

\* line 34: the "{:,}" format: the decimal digits in groups of three
RECURSIVE Grouped(_)
Grouped(n) == IF n < 1000 THEN <<n>> ELSE Grouped(n \div 1000) \o <<n % 1000>>

\* line 41: the errno open() fails with, or "ok"
OpenResult(f) ==
    CASE f.kind = "file"     -> "ok"
      [] f.kind = "noperm"   -> "EACCES"
      [] f.kind = "dir"      -> "EISDIR"
      [] OTHER               -> "ENOENT"

CloseHandleMut(h, n) == h

\* line 41: leaving the with block closes f
CloseHandle(h, n) == h \ {n}

\* a printed line: its kind, the loop position it was printed at (0 outside the
\* loop) and its payload
Line(t, who, v) == [t |-> t, who |-> who, v |-> v]

-----------------------------------------------------------------------------
(* The filesystems the scan is run on *)

NameA == <<"a">> \o Ext
NameB == <<"b">> \o Ext
NameDot == Ext
NameUpper == <<"a", ".", "E", "V", "T", "X">>
NameBak == NameA \o <<"~">>
NameBare == <<"e", "v", "t", "x">>

Names == {NameA, NameB, NameDot, NameUpper, NameBak, NameBare}

\* the contents of the regular files of the scan specification
SampleData ==
    { <<>>, Magic, Magic \o <<0, 0, 0, 0, 1>>, <<77, 90, 144, 0>> }

RegularFile(d) == [kind |-> "file", data |-> d, st_size |-> Len(d)]

\* what a child of the directory can be
Children ==
    { RegularFile(d) : d \in SampleData }
    \cup { [kind |-> "noperm", data |-> Magic, st_size |-> Len(Magic)],
           [kind |-> "dir", data |-> <<>>, st_size |-> 4096],
           [kind |-> "dangling", data |-> <<>>, st_size |-> 0] }

\* the sequences of at most n names
RECURSIVE Listings(_)
Listings(n) ==
    IF n = 0 THEN {<<>>}
    ELSE Listings(n - 1) \cup { Append(s, x) : s \in Listings(n - 1), x \in Names }

Range(s) == {s[i] : i \in 1..Len(s)}

Distinct(s) == \A i, j \in 1..Len(s) : s[i] = s[j] => i = j

\* the locals before the first statement
Start ==
    /\ pc = "check"
    /\ evtx_files = <<>>
    /\ idx = 0
    /\ handles = {}
    /\ header = <<>>
    /\ out = <<>>
    /\ opens = <<>>
    /\ exc = "none"

Init ==
    /\ target \in {"missing", "file", "dir"}
    /\ dirents \in {s \in Listings(MaxEntries) : Distinct(s)}
    /\ target # "dir" => dirents = <<>>
    /\ fs \in [Range(dirents) -> Children]
    /\ \A n \in Range(dirents) : ~Matches(n) => fs[n] = RegularFile(Magic)
    /\ Start

\* the byte values the files of the signature specification are made of
Byte == {0} \cup Range(Magic)

\* the byte strings over a of at most n bytes
RECURSIVE Strings(_, _)
Strings(a, n) ==
    IF n = 0 THEN {<<>>}
    ELSE Strings(a, n - 1) \cup { Append(s, x) : s \in Strings(a, n - 1), x \in a }

\* every file of at most SigLen bytes, and every SigLen bytes followed by at most
\* MaxTail more
SigData ==
    Strings(Byte, SigLen) \cup
    { h \o t : h \in {x \in Strings(Byte, SigLen) : Len(x) = SigLen},
               t \in Strings({0, 70}, MaxTail) }

\* a directory holding one readable regular file with a matching name
InitSig ==
    /\ target = "dir"
    /\ dirents = <<NameA>>
    /\ fs \in [{NameA} -> {RegularFile(d) : d \in SigData}]
    /\ Start

-----------------------------------------------------------------------------
(* read_evtx_files, statement by statement *)

cur == evtx_files[idx]

Emit(lines) == out' = out \o lines

\* the end of one iteration of the for loop of line 32
NextEntry ==
    IF idx < Len(evtx_files)
    THEN /\ idx' = idx + 1
         /\ pc' = "name"
    ELSE /\ idx' = idx
         /\ pc' = "done"

\* lines 18-20: the path does not exist
CheckMissing ==
    /\ pc = "check"
    /\ ~Exists(target)
    /\ Emit(<<Line("nodir", 0, <<>>)>>)
    /\ pc' = "done"
    /\ UNCHANGED <<target, dirents, fs, evtx_files, idx, handles, header, opens, exc>>

\* line 18: the path exists
CheckExists ==
    /\ pc = "check"
    /\ Exists(target)
    /\ pc' = "glob"
    /\ UNCHANGED <<target, dirents, fs, evtx_files, idx, handles, header, out, opens, exc>>

\* line 23
Glob ==
    /\ pc = "glob"
    /\ evtx_files' = GlobList(target, dirents)
    /\ pc' = "branch"
    /\ UNCHANGED <<target, dirents, fs, idx, handles, header, out, opens, exc>>

\* lines 25-27
ReportNone ==
    /\ pc = "branch"
    /\ evtx_files = <<>>
    /\ Emit(<<Line("nofiles", 0, <<>>)>>)
    /\ pc' = "done"
    /\ UNCHANGED <<target, dirents, fs, evtx_files, idx, handles, header, opens, exc>>

ReportCountMut ==
    /\ pc = "branch"
    /\ evtx_files # <<>>
    /\ Emit(<<Line("sep", 0, <<>>), Line("count", 0, <<Len(evtx_files)>>)>>)
    /\ idx' = 1
    /\ pc' = "name"
    /\ UNCHANGED <<target, dirents, fs, evtx_files, handles, header, opens, exc>>

\* lines 29-32
ReportCount ==
    /\ pc = "branch"
    /\ evtx_files # <<>>
    /\ Emit(<<Line("count", 0, <<Len(evtx_files)>>), Line("sep", 0, <<>>)>>)
    /\ idx' = 1
    /\ pc' = "name"
    /\ UNCHANGED <<target, dirents, fs, evtx_files, handles, header, opens, exc>>

\* line 33
ReportName ==
    /\ pc = "name"
    /\ Emit(<<Line("name", idx, cur)>>)
    /\ pc' = "stat"
    /\ UNCHANGED <<target, dirents, fs, evtx_files, idx, handles, header, opens, exc>>

\* line 34: stat() answers
ReportSize ==
    /\ pc = "stat"
    /\ ~StatFails(fs[cur])
    /\ Emit(<<Line("size", idx, Grouped(StSize(fs[cur])))>>)
    /\ pc' = "open"
    /\ UNCHANGED <<target, dirents, fs, evtx_files, idx, handles, header, opens, exc>>

\* line 34: stat() raises, outside the try of line 39: the exception leaves the function
StatRaises ==
    /\ pc = "stat"
    /\ StatFails(fs[cur])
    /\ exc' = "ENOENT"
    /\ pc' = "raised"
    /\ UNCHANGED <<target, dirents, fs, evtx_files, idx, handles, header, out, opens>>

\* line 41: open() succeeds
OpenOk ==
    /\ pc = "open"
    /\ OpenResult(fs[cur]) = "ok"
    /\ opens' = Append(opens, cur)
    /\ handles' = handles \cup {cur}
    /\ pc' = "read"
    /\ UNCHANGED <<target, dirents, fs, evtx_files, idx, header, out, exc>>

\* lines 41, 47-48: open() raises, the handler prints the message
OpenFails ==
    /\ pc = "open"
    /\ OpenResult(fs[cur]) # "ok"
    /\ opens' = Append(opens, cur)
    /\ Emit(<<Line("error", idx, <<OpenResult(fs[cur])>>)>>)
    /\ NextEntry
    /\ UNCHANGED <<target, dirents, fs, evtx_files, handles, header, exc>>

\* line 42: the handle keeps the file's bytes even when its name is gone
ReadOk ==
    /\ pc = "read"
    /\ header' = ReadBytes(fs[cur].data, HeaderLen)
    /\ pc' = "compare"
    /\ UNCHANGED <<target, dirents, fs, evtx_files, idx, handles, out, opens, exc>>

\* lines 42, 47-48: read() raises an I/O error: the with block closes f, the handler
\* prints the message
ReadFails ==
    /\ pc = "read"
    /\ handles' = CloseHandle(handles, cur)
    /\ Emit(<<Line("error", idx, <<"EIO">>)>>)
    /\ NextEntry
    /\ UNCHANGED <<target, dirents, fs, evtx_files, header, opens, exc>>

\* lines 43-46
Compare ==
    /\ pc = "compare"
    /\ Emit(<<Line(IF SignatureOk(header) THEN "valid" ELSE "warn", idx, <<>>)>>)
    /\ pc' = "exit_with"
    /\ UNCHANGED <<target, dirents, fs, evtx_files, idx, handles, header, opens, exc>>

\* line 41: the end of the with block
ExitWith ==
    /\ pc = "exit_with"
    /\ handles' = CloseHandle(handles, cur)
    /\ NextEntry
    /\ UNCHANGED <<target, dirents, fs, evtx_files, header, out, opens, exc>>

\* another process removes the regular file the loop is at, at any point between the
\* print of its name and the end of its with block (a removal before that is seen by
\* the scan exactly as one made when the loop reaches the file)
EnvRemove ==
    /\ pc \in {"stat", "open", "read", "compare", "exit_with"}
    /\ fs[cur].kind \in {"file", "noperm"}
    /\ fs' = [fs EXCEPT ![cur].kind = "gone"]
    /\ UNCHANGED <<target, dirents, pc, evtx_files, idx, handles, header, out, opens, exc>>

Scan ==
    \/ CheckMissing
    \/ CheckExists
    \/ Glob
    \/ ReportNone
    \/ ReportCount
    \/ ReportName
    \/ ReportSize
    \/ StatRaises
    \/ OpenOk
    \/ OpenFails
    \/ ReadOk
    \/ ReadFails
    \/ Compare
    \/ ExitWith

Next == Scan \/ EnvRemove

Spec == Init /\ [][Next]_vars

\* the scan of one readable file that nothing disturbs
NextSig ==
    \/ CheckExists
    \/ Glob
    \/ ReportCount
    \/ ReportName
    \/ ReportSize
    \/ OpenOk
    \/ ReadOk
    \/ Compare
    \/ ExitWith

SpecSig == InitSig /\ [][NextSig]_vars

-----------------------------------------------------------------------------
(* Vocabulary of the properties *)

\* the function has returned or raised
Terminal == pc \in {"done", "raised"}

\* the positions of out holding a line of kind t printed for loop position i
LinesOf(t, i) == {k \in 1..Len(out) : out[k].t = t /\ out[k].who = i}

\* the positions of out holding a line of kind t
LinesOfKind(t) == {k \in 1..Len(out) : out[k].t = t}

OutcomeKinds == {"valid", "warn", "error"}

OutcomesOf(i) == {k \in 1..Len(out) : out[k].t \in OutcomeKinds /\ out[k].who = i}

\* the name ends with the extension, character for character
HasExt(name) ==
    /\ Len(name) >= Len(Ext)
    /\ SubSeq(name, Len(name) - Len(Ext) + 1, Len(name)) = Ext

\* the number a grouped size stands for
RECURSIVE Ungroup(_)
Ungroup(g) ==
    IF g = <<>> THEN 0
    ELSE Ungroup(SubSeq(g, 1, Len(g) - 1)) * 1000 + g[Len(g)]

\* the place of x in the sequence s
PosIn(s, x) == CHOOSE i \in 1..Len(s) : s[i] = x

\* how far the function has got
Rank ==
    CASE pc = "check"     -> 0
      [] pc = "glob"      -> 1
      [] pc = "branch"    -> 2
      [] pc = "name"      -> 6 * idx - 3
      [] pc = "stat"      -> 6 * idx - 2
      [] pc = "open"      -> 6 * idx - 1
      [] pc = "read"      -> 6 * idx
      [] pc = "compare"   -> 6 * idx + 1
      [] pc = "exit_with" -> 6 * idx + 2
      [] OTHER            -> 6 * Len(evtx_files) + 3

-----------------------------------------------------------------------------
(* C1 *)

\* C1: when the function has ended, every matched entry whose open or read failed
\* has exactly one error line, and every entry listed after it has been processed
\* (its name has been reported): the failure did not end the scan.
C1_FailureIsLocal ==
    Terminal =>
        \A i \in 1..Len(evtx_files) :
            LinesOf("error", i) # {} =>
                /\ Cardinality(LinesOf("error", i)) = 1
                /\ \A j \in (i + 1)..Len(evtx_files) : LinesOf("name", j) # {}

(* C2 *)

\* C2: once the directory check has passed and the listing holds a match, the
\* function ends only by returning, with a name, a size and one outcome report for
\* every matched entry; no exception reaches the caller.
C2_ScanRunsToEnd ==
    (Terminal /\ Exists(target) /\ evtx_files # <<>>) =>
        /\ exc = "none"
        /\ pc = "done"
        /\ \A i \in 1..Len(evtx_files) :
              /\ Cardinality(LinesOf("name", i)) = 1
              /\ Cardinality(LinesOf("size", i)) = 1
              /\ Cardinality(OutcomesOf(i)) = 1

(* C3 *)

\* C3: for a path that is not a directory (missing, or a regular file) the function
\* stops at the initial check: it never reaches the enumeration and prints nothing
\* but the missing-directory report.
C3_NonDirectoryStops ==
    target # "dir" =>
        /\ pc \in {"check", "done"}
        /\ \A k \in 1..Len(out) : out[k].t = "nodir"

(* C4 *)

\* C4: for a path that does not exist the function prints the missing-directory
\* report and nothing else, opens no file, never enumerates and returns normally.
C4_MissingDirectory ==
    target = "missing" =>
        /\ pc \in {"check", "done"}
        /\ exc = "none"
        /\ opens = <<>>
        /\ handles = {}
        /\ Len(out) = (IF pc = "done" THEN 1 ELSE 0)
        /\ \A k \in 1..Len(out) : out[k].t = "nodir"

C4_Witness ==
    /\ target = "missing"
    /\ pc = "done"
    /\ Len(out) = 1
    /\ out[1].t = "nodir"

(* C5 *)

\* C5: when the function has ended on a directory holding N entries whose name ends
\* with ".evtx", the count line (printed when N > 0) says N, exactly N name reports
\* have been printed, no two of them for the same entry, and each names an entry
\* whose name ends with ".evtx".
C5_ExactlyNReported ==
    (Terminal /\ target = "dir") =>
        LET N == Cardinality({n \in Range(dirents) : HasExt(n)})
            names == LinesOfKind("name")
        IN  /\ N > 0 => \E k \in LinesOfKind("count") : out[k].v = <<N>>
            /\ Cardinality(LinesOfKind("count")) = (IF N > 0 THEN 1 ELSE 0)
            /\ Cardinality(names) = N
            /\ \A k, l \in names : out[k].v = out[l].v => k = l
            /\ \A k \in names : out[k].v \in Range(dirents) /\ HasExt(out[k].v)

(* C6 *)

\* C6: every verdict printed for a file is "valid" exactly when the file has at
\* least 4 bytes and its first 4 bytes are the magic value, whatever follows them;
\* a file that was read gets one verdict and no error.
C6_Verdict ==
    /\ \A k \in 1..Len(out) :
          out[k].t \in {"valid", "warn"} =>
              LET d == fs[evtx_files[out[k].who]].data
              IN  (out[k].t = "valid") <=> (Len(d) >= 4 /\ SubSeq(d, 1, 4) = Magic)
    /\ pc = "done" =>
          \A i \in 1..Len(evtx_files) :
              LinesOf("error", i) = {} =>
                  Cardinality(LinesOf("valid", i) \cup LinesOf("warn", i)) = 1

\* a file of 9 bytes whose bytes 5 to 9 are not all alike was reported valid
C6_Witness ==
    /\ pc = "done"
    /\ LinesOf("valid", 1) # {}
    /\ Len(fs[NameA].data) = 9
    /\ fs[NameA].data[5] = 70
    /\ fs[NameA].data[9] = 0

(* C7 *)

\* C7: on a directory none of whose entries has a name ending with ".evtx" the
\* function never enters the loop, opens no file and prints nothing but, at its
\* end, the one "no matching files" report.
C7_NoMatches ==
    (target = "dir" /\ \A n \in Range(dirents) : ~HasExt(n)) =>
        /\ pc \in {"check", "glob", "branch", "done"}
        /\ exc = "none"
        /\ opens = <<>>
        /\ handles = {}
        /\ Len(out) = (IF pc = "done" THEN 1 ELSE 0)
        /\ \A k \in 1..Len(out) : out[k].t = "nofiles"

C7_Witness ==
    /\ target = "dir"
    /\ Len(dirents) >= 2
    /\ \A n \in Range(dirents) : ~HasExt(n)
    /\ pc = "done"
    /\ Len(out) = 1
    /\ out[1].t = "nofiles"

(* C8 *)

\* C8: at most one file object is open, it is the one of the entry the loop is at,
\* and none is open outside the with block: not when a name is printed, not when
\* the function has returned or raised.
C8_HandleScoped ==
    /\ Cardinality(handles) <= 1
    /\ pc \notin {"read", "compare", "exit_with"} => handles = {}
    /\ handles # {} => handles = {cur}

\* the scan has ended after a read that succeeded and a read that raised
C8_Witness ==
    /\ pc = "done"
    /\ Len(opens) >= 2
    /\ \E k \in LinesOfKind("error") : out[k].v = <<"EIO">>
    /\ LinesOfKind("valid") # {}

(* C9 *)

\* the lines printed so far are the beginning of a report in the fixed order:
\* nothing before the directory check; then either one closing report, or the count
\* line, the separator and, entry after entry in enumeration order, the name, the
\* size and one outcome
C9_OrderOfReports ==
    /\ pc = "check" => Len(out) = 0
    /\ Len(out) >= 1 => out[1].t \in {"nodir", "nofiles", "count"}
    /\ (Len(out) >= 1 /\ out[1].t \in {"nodir", "nofiles"}) => Len(out) = 1
    /\ Len(out) >= 2 => out[2].t = "sep"
    /\ \A k \in 3..Len(out) :
          LET i == ((k - 3) \div 3) + 1
              r == (k - 3) % 3
          IN  /\ i <= Len(evtx_files)
              /\ out[k].who = i
              /\ r = 0 => (out[k].t = "name" /\ out[k].v = evtx_files[i])
              /\ r = 1 => out[k].t = "size"
              /\ r = 2 => out[k].t \in OutcomeKinds
    /\ \A i, j \in 1..Len(evtx_files) :
          i < j => PosIn(dirents, evtx_files[i]) < PosIn(dirents, evtx_files[j])

\* a step of the function moves it forward and only adds to what is printed
C9_Forward ==
    /\ (pc' = pc /\ idx' = idx) \/ Rank' > Rank
    /\ Len(out') >= Len(out)
    /\ SubSeq(out', 1, Len(out)) = out

C10_SizeReported ==
    \A k \in LinesOfKind("size") :
        LET f == fs[evtx_files[out[k].who]]
        IN  /\ Ungroup(out[k].v) = f.st_size
            /\ f.kind # "dir" => Ungroup(out[k].v) = Len(f.data)
            /\ (pc = "compare" /\ out[k].who = idx) =>
                  header = SubSeq(f.data, 1, Min(HeaderLen, Ungroup(out[k].v)))

\* no step changes the bytes or the length of a file, and a step in which the
\* function moves changes nothing of the filesystem
C10_FilesUntouched ==
    /\ DOMAIN fs' = DOMAIN fs
    /\ \A n \in DOMAIN fs : fs'[n].data = fs[n].data /\ fs'[n].st_size = fs[n].st_size
    /\ fs' # fs => UNCHANGED <<pc, idx, evtx_files, handles, header, out, opens, exc>>
    /\ UNCHANGED <<target, dirents>>

\* C10: the size reported for an entry is its length in the filesystem metadata when
\* the entry is processed, the scan never changes a file, and so the size reported
\* is the length of the file the signature check reads.
C10_SizeIsLength == []C10_SizeReported /\ [][C10_FilesUntouched]_vars

\* a file longer than the header read was sized and found valid, and a directory
\* was sized with a grouping separator
C10_Witness ==
    /\ pc = "done"
    /\ \E k \in LinesOfKind("size") : out[k].v = <<9>> /\ LinesOf("valid", out[k].who) # {}
    /\ \E k \in LinesOfKind("size") : out[k].v = <<4, 96>>

====
